---- MODULE Spec2Model ----
(***************************************************************************)
(* Model of main.py: a bot that looks up the newest Practice session of    *)
(* the latest meeting, fetches its results and posts them to a webhook,    *)
(* remembering the last posted session key in state.json.                  *)
(*                                                                         *)
(* Values.  Python None / JSON null is the integer None (-1); a key that   *)
(* a dict does not hold is Absent (-2).  Session keys are integers, 0 is   *)
(* the falsy key.  ISO timestamps are modelled by their rank in string     *)
(* order: 1..MaxDate, the empty string is EmptyStr (0) and sorts first.    *)
(***************************************************************************)
EXTENDS Integers, Sequences, FiniteSets, TLC

VARIABLES
    file,       \* content of state.json
    pc,         \* per invocation slot: where main() stands
    state,      \* per slot: main's local `state`
    file0,      \* per slot: content of state.json when the run started (history)
    sess,       \* per slot: main's local `sess`
    fetched,    \* per slot: a session_result request was made
    results,    \* per slot: main's local `results`
    delivery,   \* per slot: what became of the webhook call of line 98
    writes,     \* per slot: writes of state.json performed by this run
    error,      \* per slot: the uncaught exception that ended the run
    webhook,    \* per session key: messages the webhook accepted
    runs,       \* invocations of main() started so far
    prev,       \* summary of the previous invocation (history)
    pending,    \* keys with a NoResults run and no post sent to the webhook since (history)
    input,      \* argument of a function applied on its own
    output      \* <<>> before the call, <<value>> after it

vars == <<file, pc, state, file0, sess, fetched, results, delivery,
          writes, error, webhook, runs, prev, pending, input, output>>

pipeline_vars == <<file, pc, state, file0, sess, fetched, results,
                   delivery, writes, error, webhook, runs, prev, pending>>

----------------------------------------------------------------------------
(* Bounds *)
NumKeys == 2
MaxDate == 2
MaxPos == 2
MaxSessions == 3
MaxRows == 3
MaxMeeting == 2
MaxResults == 1
MaxRuns == 3

(* Values *)
None == -1
Absent == -2
EmptyStr == 0
Sentinel == 9999

Keys == 1..NumKeys
Procs == {1, 2}
Main == 1

\* Python truthiness of None, "" and 0 versus anything else.
Truthy(x) == x # None /\ x # 0

RECURSIVE SeqsUpTo(_, _)
SeqsUpTo(S, n) ==
    IF n = 0 THEN {<<>>}
    ELSE LET shorter == SeqsUpTo(S, n - 1)
         IN  shorter \cup {Append(q, x) : q \in {r \in shorter : Len(r) = n - 1}, x \in S}

----------------------------------------------------------------------------
(* state.json and load_state / save_state *)

FileOf(kind, last) == [kind |-> kind, last |-> last]
FileMissing == FileOf("missing", Absent)
FileUnparsable == FileOf("unparsable", Absent)
\* valid JSON that is no object: [], null, 5, "x"
FileNonObject == FileOf("nonobject", Absent)
\* a JSON object; last is the value of last_posted_session_key, or Absent
FileObject(last) == FileOf("object", last)

FileContents ==
    {FileMissing, FileUnparsable, FileNonObject}
        \cup {FileObject(k) : k \in {Absent, None} \cup Keys}

DefaultState == FileObject(None)

load_state(f) ==
    IF f.kind = "missing" THEN DefaultState
    ELSE IF f.kind = "unparsable" THEN DefaultState
    ELSE f

\* state.get("last_posted_session_key") on a dict
StateGet(st) == IF st.last = Absent THEN None ELSE st.last

\* the assignment of line 101 left out
StateSetForgotten(st, sk) == st

\* state["last_posted_session_key"] = sk
StateSet(st, sk) == [st EXCEPT !.last = sk]

----------------------------------------------------------------------------
(* get_latest_practice_session *)

SessionOf(type, key, de, ds) ==
    [session_type |-> type, session_key |-> key, date_end |-> de, date_start |-> ds]

\* main's `sess` before line 62 ran, and the None the resolver may return
Unset == SessionOf("unset", None, None, None)
NoPractice == SessionOf("none", None, None, None)

\* the eligible type and one that differs from it in case only
SessionTypes == {"Practice", "practice"}
DateField == {None} \cup (1..MaxDate)

\* answers of GET /sessions when the resolver is applied on its own
ApiSessions ==
    {SessionOf(t, 1, de, ds) : t \in SessionTypes, de \in DateField, ds \in {None, 1}}
SessionLists == SeqsUpTo(ApiSessions, MaxSessions)

\* answers of GET /sessions inside a run of main()
MeetingSessions ==
    {SessionOf("Practice", k, None, None) : k \in {None} \cup (0..NumKeys)}
        \cup {SessionOf("Race", 1, None, None)}
MeetingLists == SeqsUpTo(MeetingSessions, MaxMeeting)

sort_key(s) ==
    IF Truthy(s.date_end) THEN s.date_end
    ELSE IF Truthy(s.date_start) THEN s.date_start
    ELSE EmptyStr

\* a sort that puts an entry before the entries of equal key
RECURSIVE InsertSessionBeforeEqual(_, _)
InsertSessionBeforeEqual(sorted, s) ==
    IF sorted = <<>> THEN <<s>>
    ELSE IF sort_key(sorted[Len(sorted)]) < sort_key(s) THEN Append(sorted, s)
    ELSE Append(InsertSessionBeforeEqual(SubSeq(sorted, 1, Len(sorted) - 1), s),
                sorted[Len(sorted)])

\* list.sort / sorted: stable, ascending by key
RECURSIVE InsertSession(_, _)
InsertSession(sorted, s) ==
    IF sorted = <<>> THEN <<s>>
    ELSE IF sort_key(sorted[Len(sorted)]) <= sort_key(s) THEN Append(sorted, s)
    ELSE Append(InsertSession(SubSeq(sorted, 1, Len(sorted) - 1), s), sorted[Len(sorted)])

RECURSIVE SortSessions(_)
SortSessions(l) ==
    IF l = <<>> THEN <<>>
    ELSE InsertSession(SortSessions(SubSeq(l, 1, Len(l) - 1)), l[Len(l)])

IsPractice(s) == s.session_type = "Practice"

get_latest_practice_session(sessions) ==
    LET practice == SelectSeq(sessions, IsPractice)
        ordered == SortSessions(practice)
    IN  IF practice = <<>> THEN NoPractice ELSE ordered[Len(ordered)]

----------------------------------------------------------------------------
(* get_session_results *)

RowOf(pos, driver) == [position |-> pos, driver |-> driver]
Positions == {None} \cup (0..MaxPos)
Drivers == {"VER", "NOR"}
ApiRows == {RowOf(p, d) : p \in Positions, d \in Drivers}
RowLists == SeqsUpTo(ApiRows, MaxRows)

\* answers of GET /session_result inside a run of main()
MeetingRows == {RowOf(p, "VER") : p \in {None, 1}}
MeetingRowLists == SeqsUpTo(MeetingRows, MaxResults)

\* lambda x: x.get("position") or 9999
position_key(x) == IF Truthy(x.position) THEN x.position ELSE Sentinel

RECURSIVE InsertRow(_, _)
InsertRow(sorted, x) ==
    IF sorted = <<>> THEN <<x>>
    ELSE IF position_key(sorted[Len(sorted)]) <= position_key(x) THEN Append(sorted, x)
    ELSE Append(InsertRow(SubSeq(sorted, 1, Len(sorted) - 1), x), sorted[Len(sorted)])

RECURSIVE SortRows(_)
SortRows(l) ==
    IF l = <<>> THEN <<>>
    ELSE InsertRow(SortRows(SubSeq(l, 1, Len(l) - 1)), l[Len(l)])

get_session_results(rows) == SortRows(rows)

----------------------------------------------------------------------------
(* main *)

Terminal == {"NoSession", "NoKey", "AlreadyPosted", "NoResults", "Persisted", "Aborted"}

PrevOf(key, outcome, accepted) == [key |-> key, outcome |-> outcome, accepted |-> accepted]

\* the webhook took the message in / the request reached the webhook
Accepted(d) == d \in {"accepted", "timed_out"}
Sent(d) == d \in {"accepted", "timed_out", "rejected"}

\* the comparison reading a key the state never holds
AlreadyPostedWrongKey(st, sk) == None = sk

\* lines 73-75: the de-dupe comparison on a dict
AlreadyPosted(st, sk) == StateGet(st) = sk

\* the early return of line 75 left out
AfterResolveNoReturn(st, s) ==
    IF s = NoPractice THEN [pc |-> "NoSession", error |-> "none"]
    ELSE IF ~Truthy(s.session_key) THEN [pc |-> "NoKey", error |-> "none"]
    ELSE IF st.kind # "object" THEN [pc |-> "Aborted", error |-> "AttributeError"]
    ELSE [pc |-> "gated", error |-> "none"]

\* lines 63-75: where main goes once the resolver returned s
AfterResolve(st, s) ==
    IF s = NoPractice THEN [pc |-> "NoSession", error |-> "none"]
    ELSE IF ~Truthy(s.session_key) THEN [pc |-> "NoKey", error |-> "none"]
    ELSE IF st.kind # "object" THEN [pc |-> "Aborted", error |-> "AttributeError"]
    ELSE IF AlreadyPosted(st, s.session_key) THEN [pc |-> "AlreadyPosted", error |-> "none"]
    ELSE [pc |-> "gated", error |-> "none"]

\* the early return of line 80 left out
AfterFetchNoReturn(res) == "formatted"

\* lines 78-80
AfterFetch(res) == IF res = <<>> THEN "NoResults" ELSE "formatted"

\* lines 53-58: does post_to_discord return to main after this outcome
PostReturns(d) == d \in {"unconfigured", "accepted", "rejected"}

PostOutcomes == {"unconfigured", "accepted", "rejected", "failed", "timed_out"}

\* a write that only creates state.json and keeps an object already there
WriteTextCreateOnly(f, st, outcome) ==
    IF outcome = "written" THEN (IF f.kind = "object" THEN f ELSE st)
    ELSE IF outcome = "truncated" THEN FileUnparsable
    ELSE f

\* line 20: what write_text leaves in state.json
WriteText(f, st, outcome) ==
    IF outcome = "written" THEN st
    ELSE IF outcome = "truncated" THEN FileUnparsable
    ELSE f

WriteOutcomes == {"written", "truncated", "refused"}

\* line 61
LoadState(p) ==
    /\ pc[p] \in Terminal \cup {"idle"}
    /\ runs < MaxRuns
    /\ runs' = runs + 1
    /\ state' = [state EXCEPT ![p] = load_state(file)]
    /\ file0' = [file0 EXCEPT ![p] = file]
    /\ sess' = [sess EXCEPT ![p] = Unset]
    /\ fetched' = [fetched EXCEPT ![p] = FALSE]
    /\ results' = [results EXCEPT ![p] = <<>>]
    /\ delivery' = [delivery EXCEPT ![p] = "none"]
    /\ writes' = [writes EXCEPT ![p] = 0]
    /\ error' = [error EXCEPT ![p] = "none"]
    /\ prev' = IF pc[p] = "idle" THEN prev
               ELSE PrevOf(sess[p].session_key, pc[p],
                           IF Accepted(delivery[p]) THEN 1 ELSE 0)
    /\ pc' = [pc EXCEPT ![p] = "loaded"]
    /\ UNCHANGED <<file, webhook, pending, input, output>>

\* what line 62 can assign to sess: the resolver applied to an answer of /sessions
ResolvedSessions == {get_latest_practice_session(sessions) : sessions \in MeetingLists}

\* what line 77 can assign to results: the sort applied to an answer of /session_result
FetchedResults == {get_session_results(rows) : rows \in MeetingRowLists}

\* lines 62-75, the request of line 24 failing
ResolveFails(p) ==
    /\ pc[p] = "loaded"
    /\ pc' = [pc EXCEPT ![p] = "Aborted"]
    /\ error' = [error EXCEPT ![p] = "RequestException"]
    /\ UNCHANGED <<file, state, file0, sess, fetched, results, delivery,
                   writes, webhook, runs, prev, pending, input, output>>

\* lines 62-75
Resolve(p) ==
    /\ pc[p] = "loaded"
    /\ \E s \in ResolvedSessions :
         LET next == AfterResolve(state[p], s)
         IN  /\ sess' = [sess EXCEPT ![p] = s]
             /\ pc' = [pc EXCEPT ![p] = next.pc]
             /\ error' = [error EXCEPT ![p] = next.error]
    /\ UNCHANGED <<file, state, file0, fetched, results, delivery,
                   writes, webhook, runs, prev, pending, input, output>>

\* lines 77-80, the request of line 36 failing
FetchFails(p) ==
    /\ pc[p] = "gated"
    /\ fetched' = [fetched EXCEPT ![p] = TRUE]
    /\ pc' = [pc EXCEPT ![p] = "Aborted"]
    /\ error' = [error EXCEPT ![p] = "RequestException"]
    /\ UNCHANGED <<file, state, file0, sess, results, delivery,
                   writes, webhook, runs, prev, pending, input, output>>

\* lines 77-97
FetchResults(p) ==
    /\ pc[p] = "gated"
    /\ fetched' = [fetched EXCEPT ![p] = TRUE]
    /\ \E res \in FetchedResults :
         /\ results' = [results EXCEPT ![p] = res]
         /\ pc' = [pc EXCEPT ![p] = AfterFetch(res)]
         /\ pending' = IF res = <<>> THEN pending \cup {sess[p].session_key}
                       ELSE pending
    /\ UNCHANGED <<file, state, file0, sess, delivery,
                   writes, error, webhook, runs, prev, input, output>>

\* line 98
PostToDiscord(p) ==
    /\ pc[p] = "formatted"
    /\ \E d \in PostOutcomes :
         /\ delivery' = [delivery EXCEPT ![p] = d]
         /\ webhook' = IF Accepted(d)
                       THEN [webhook EXCEPT ![sess[p].session_key] = @ + 1]
                       ELSE webhook
         /\ pending' = IF Sent(d) THEN pending \ {sess[p].session_key} ELSE pending
         /\ pc' = [pc EXCEPT ![p] = IF PostReturns(d) THEN "posted" ELSE "Aborted"]
         /\ error' = [error EXCEPT ![p] = IF PostReturns(d) THEN "none"
                                          ELSE "RequestException"]
    /\ UNCHANGED <<file, state, file0, sess, fetched, results,
                   writes, runs, prev, input, output>>

\* lines 101-103
SaveState(p) ==
    /\ pc[p] = "posted"
    /\ state' = [state EXCEPT ![p] = StateSet(state[p], sess[p].session_key)]
    /\ \E w \in WriteOutcomes :
         /\ file' = WriteText(file, state'[p], w)
         /\ writes' = [writes EXCEPT ![p] = IF w = "refused" THEN @ ELSE @ + 1]
         /\ pc' = [pc EXCEPT ![p] = IF w = "written" THEN "Persisted" ELSE "Aborted"]
         /\ error' = [error EXCEPT ![p] = IF w = "written" THEN "none" ELSE "OSError"]
    /\ UNCHANGED <<file0, sess, fetched, results, delivery,
                   webhook, runs, prev, pending, input, output>>

Step(p) ==
    \/ ResolveFails(p)
    \/ Resolve(p)
    \/ FetchFails(p)
    \/ FetchResults(p)
    \/ PostToDiscord(p)
    \/ SaveState(p)

InitPipeline ==
    /\ file \in FileContents
    /\ pc = [p \in Procs |-> "idle"]
    /\ state = [p \in Procs |-> DefaultState]
    /\ file0 = [p \in Procs |-> FileMissing]
    /\ sess = [p \in Procs |-> Unset]
    /\ fetched = [p \in Procs |-> FALSE]
    /\ results = [p \in Procs |-> <<>>]
    /\ delivery = [p \in Procs |-> "none"]
    /\ writes = [p \in Procs |-> 0]
    /\ error = [p \in Procs |-> "none"]
    /\ webhook = [k \in Keys |-> 0]
    /\ runs = 0
    /\ prev = PrevOf(None, "idle", 0)
    /\ pending = {}

Init ==
    /\ InitPipeline
    /\ input = <<>>
    /\ output = <<>>

\* the scheduler starts main() again only after the previous invocation ended
Next ==
    \/ LoadState(Main)
    \/ Step(Main)

Spec == Init /\ [][Next]_vars

\* two invocations the scheduler starts without waiting for either to end
NextOverlap == \E p \in Procs : (pc[p] = "idle" /\ LoadState(p)) \/ Step(p)

SpecOverlap == Init /\ [][NextOverlap]_vars

----------------------------------------------------------------------------
(* the two list functions applied on their own *)

CallResolver ==
    /\ output = <<>>
    /\ output' = <<get_latest_practice_session(input)>>
    /\ UNCHANGED <<pipeline_vars, input>>

InitResolver ==
    /\ InitPipeline
    /\ file = FileMissing
    /\ input \in SessionLists
    /\ output = <<>>

SpecResolver == InitResolver /\ [][CallResolver]_vars

CallResults ==
    /\ output = <<>>
    /\ output' = <<get_session_results(input)>>
    /\ UNCHANGED <<pipeline_vars, input>>

InitResults ==
    /\ InitPipeline
    /\ file = FileMissing
    /\ input \in RowLists
    /\ output = <<>>

SpecResults == InitResults /\ [][CallResults]_vars

----------------------------------------------------------------------------
(* Properties *)

KeyOf(p) == sess[p].session_key
\* what load_state() returned to the run at line 61
Loaded(p) == load_state(file0[p])
Selected(p) == sess[p] # Unset /\ sess[p] # NoPractice /\ Truthy(KeyOf(p))

\* C1 as stated: over any sequence of runs the webhook takes in at most one
\* message per session key.
C1_PostedAtMostOnce == \A k \in Keys : webhook[k] <= 1

\* C1 as amended: a run delivers a message for session key k only if state.json
\* did not hold k as last_posted_session_key when the run started, so a key is
\* posted again only after its save failed or another key was saved over it.
C1_PostedOnlyWhenNotRecorded ==
    \A p \in Procs :
        Accepted(delivery[p]) => file0[p] # FileObject(KeyOf(p))

\* C1 witness: a run has delivered the second message for the same key.
C1_SecondPost ==
    /\ Accepted(delivery[Main])
    /\ webhook[KeyOf(Main)] = 2
    /\ file0[Main] # FileObject(KeyOf(Main))

\* C2 as stated: of any two consecutive runs that select the same key (and
\* of which the first did not die of an uncaught error), the second ends in
\* AlreadyPosted without a results fetch or a webhook call, and the two
\* together deliver at most one message.
C2_SecondRunSkips ==
    (/\ pc[Main] \in Terminal
     /\ Selected(Main)
     /\ prev.key = KeyOf(Main)
     /\ prev.outcome # "Aborted") =>
        /\ pc[Main] = "AlreadyPosted"
        /\ ~fetched[Main]
        /\ delivery[Main] = "none"
        /\ prev.accepted <= 1

\* C2 as amended: the same, for two consecutive runs of which the first ended
\* in Persisted or AlreadyPosted (it did not end in NoResults or in an error).
C2_SecondRunSkipsAfterSave ==
    (/\ pc[Main] \in Terminal
     /\ Selected(Main)
     /\ prev.key = KeyOf(Main)
     /\ prev.outcome \in {"Persisted", "AlreadyPosted"}) =>
        /\ pc[Main] = "AlreadyPosted"
        /\ ~fetched[Main]
        /\ delivery[Main] = "none"
        /\ prev.accepted <= 1

\* C2 witness: a run ended in AlreadyPosted right after a run that posted and
\* saved the same key.
C2_SkippedAfterPost ==
    /\ pc[Main] = "AlreadyPosted"
    /\ prev.outcome = "Persisted"
    /\ prev.accepted = 1
    /\ prev.key = KeyOf(Main)

\* C3: when the selected session's key equals the last_posted_session_key the
\* run loaded, the run ends in AlreadyPosted, requests no results, calls no
\* webhook and leaves state.json as it was.
C3_DedupeGate ==
    \A p \in {Main} :
        (/\ Selected(p)
         /\ Loaded(p).kind = "object"
         /\ StateGet(Loaded(p)) = KeyOf(p)) =>
            /\ pc[p] = "AlreadyPosted"
            /\ ~fetched[p]
            /\ delivery[p] = "none"
            /\ writes[p] = 0
            /\ file = file0[p]

\* C3 witness: a run stopped at the gate on the key state.json held.
C3_Gated ==
    /\ pc[Main] = "AlreadyPosted"
    /\ file0[Main] = FileObject(KeyOf(Main))
    /\ file = file0[Main]

\* C4: a run in which no practice session is found, the selected session has
\* no key, or the results are empty sends no webhook message and does not
\* touch state.json.
C4_EarlyExitNoEffect ==
    \A p \in {Main} :
        (\/ sess[p] = NoPractice
         \/ (sess[p] # Unset /\ ~Truthy(KeyOf(p)))
         \/ (fetched[p] /\ results[p] = <<>>)) =>
            /\ delivery[p] = "none"
            /\ writes[p] = 0
            /\ file = file0[p]

\* C4 witness: a run ended on empty results after a run that found no practice
\* session.
C4_EarlyExits ==
    /\ pc[Main] = "NoResults"
    /\ results[Main] = <<>>
    /\ prev.outcome \in {"NoSession", "NoKey"}

\* C5 as stated: a run writes state.json at most once and only after its own
\* webhook post was delivered; a run whose post was not delivered leaves
\* state.json as it was.
C5_SaveOnlyAfterDelivery ==
    \A p \in {Main} :
        /\ writes[p] <= 1
        /\ writes[p] > 0 => delivery[p] = "accepted"
        /\ (pc[p] \in Terminal /\ delivery[p] # "accepted") => file = file0[p]

\* C8 as stated: whatever state.json holds, load_state hands main a usable
\* state (the default one when the file is missing or unparsable) and the
\* de-dupe check on it never aborts the run.
C8_LoadNeverFails ==
    \A p \in {Main} :
        /\ (pc[p] # "idle" /\ file0[p].kind \in {"missing", "unparsable"})
              => Loaded(p) = DefaultState
        /\ error[p] # "AttributeError"

\* C9 as stated: once a run for key k ended in NoResults and no run since
\* posted k, a run that selects k is not stopped by the gate.
C9_NoResultsDoesNotBlock ==
    \A p \in {Main} :
        (pc[p] = "AlreadyPosted") => KeyOf(p) \notin pending

\* C10: overlapping runs are not coordinated: a run that saves overwrites
\* state.json with its own state whatever the other run wrote meanwhile, so
\* the file holds the last write.
C10_LastWriteWins ==
    [][\A p \in Procs :
          (pc[p] = "posted" /\ pc'[p] = "Persisted")
              => file' = StateSet(Loaded(p), KeyOf(p))]_vars

\* C10 witness: both runs loaded the same state.json, passed the gate for the
\* same key, both delivered it and both saved.
C10_BothPosted ==
    /\ pc[1] = "Persisted" /\ pc[2] = "Persisted"
    /\ KeyOf(1) = KeyOf(2)
    /\ file0[1] = file0[2]
    /\ delivery[1] = "accepted" /\ delivery[2] = "accepted"
    /\ webhook[KeyOf(1)] = 2
    /\ file = FileObject(KeyOf(1))

\* the sort key as C6 words it
C6_Key(s) ==
    IF s.date_end # None THEN s.date_end
    ELSE IF s.date_start # None THEN s.date_start
    ELSE EmptyStr

\* C6: the resolver returns None when no entry has session_type "Practice";
\* otherwise the Practice entry of greatest key, the last one in input order
\* among those of equal greatest key.
C6_LatestPractice ==
    output # <<>> =>
        LET practice == {i \in 1..Len(input) : input[i].session_type = "Practice"}
        IN  IF practice = {} THEN output[1] = NoPractice
            ELSE \E i \in practice :
                    /\ output[1] = input[i]
                    /\ \A j \in practice :
                          \/ C6_Key(input[j]) < C6_Key(input[i])
                          \/ (C6_Key(input[j]) = C6_Key(input[i]) /\ j <= i)

\* C6 witness: two different Practice entries share the greatest key and the
\* later one was returned.
C6_TieReturnsLast ==
    /\ output # <<>>
    /\ \E i, j \in 1..Len(input) :
          /\ i < j
          /\ input[i].session_type = "Practice"
          /\ input[j].session_type = "Practice"
          /\ C6_Key(input[i]) = C6_Key(input[j])
          /\ input[i] # input[j]
          /\ output[1] = input[j]
          /\ \E k \in 1..Len(input) :
                input[k].session_type = "Practice" /\ C6_Key(input[k]) < C6_Key(input[j])

\* the ordering key as C7 words it
C7_Key(x) == IF x.position = None THEN Sentinel ELSE x.position

Count(l, x) == Cardinality({i \in 1..Len(l) : l[i] = x})

\* C7 as stated: the result is a permutation of the rows, ascending by
\* position, where only an absent position counts as 9999; rows without a
\* position come after all rows with one.
C7_SortedByPosition ==
    output # <<>> =>
        LET res == output[1]
        IN  /\ Len(res) = Len(input)
            /\ \A x \in ApiRows : Count(res, x) = Count(input, x)
            /\ \A i, j \in 1..Len(res) : i < j => C7_Key(res[i]) <= C7_Key(res[j])
            /\ \A i, j \in 1..Len(res) :
                  (res[i].position = None /\ res[j].position # None) => j < i

====
